---- MODULE Spec2Model ----
(***************************************************************************)
(* Model of the Dead Simple Split Flap Display driver                      *)
(* (dead_simple_split_flap_display.ino): the tick handler move_rotors(),   *)
(* the phase stepping step_fwd(), the output stage rotors_out() and the    *)
(* host writing message[] as loop() does.                                  *)
(*                                                                         *)
(* Arrays keep the source's 0-based indices (functions over 0..N-1).       *)
(* A C char is modelled by its value; its signedness is fixed by the       *)
(* build (signed on AVR, unsigned on ARM) and chosen in Init.              *)
(***************************************************************************)
EXTENDS Integers, Sequences, FiniteSets

\* ---- program constants (#define) ----
INITIAL_ACCEL == 15
BRAKE_STEPS == 50
GEAR_RATIO == 64
NUM_FLAPS == 32
NUM_UNITS == 10

\* the two literals of the compensation ratio, steps * 319 / 320
RATIO_NUM == 319
RATIO_DEN == 320

\* the unit rotors_out() drives: int rotor_num = 0
OUT_ROTOR_NUM == 0

\* ---- bounds of the model ----
\* how many times the host writes a text into message[]
MaxSubmits == 2

VARIABLES
    rotors,        \* char rotors[NUM_UNITS / 2]: two 4-bit phase nibbles per byte
    steps,         \* long steps[NUM_UNITS]: remaining steps per rotor
    acc,           \* acceleration countdown
    acc_t,         \* delay ticks left before the next step
    last_display,  \* char last_display[NUM_UNITS]
    rolling,       \* char rolling
    message,       \* char message[NUM_UNITS + 1]
    ff,            \* the global loop counter
    pins,          \* the levels last written to pin_1..pin_4
    char_signed,   \* whether the build's char is signed
    path,          \* the way the last move_rotors() call went
    submits        \* number of texts the host has written so far

vars == <<rotors, steps, acc, acc_t, last_display, rolling, message, ff,
          pins, char_signed, path, submits>>

Units == 0 .. NUM_UNITS - 1

\* ---- C arithmetic ----

\* conversion of an int to char: wraps to 8 bits, signed or unsigned
ToChar(v) == IF char_signed THEN ((v + 128) % 256) - 128 ELSE v % 256

\* C division and remainder truncate toward zero
CDiv(a, b) == IF a >= 0 THEN a \div b ELSE -((-a) \div b)

CRem(a, b) == a - b * CDiv(a, b)

RECURSIVE BitAnd(_, _)
BitAnd(a, b) ==
    IF a = 0 \/ b = 0 THEN 0
    ELSE (a % 2) * (b % 2) + 2 * BitAnd(a \div 2, b \div 2)

RECURSIVE BitOr(_, _)
BitOr(a, b) ==
    IF a = 0 THEN b
    ELSE IF b = 0 THEN a
    ELSE (IF a % 2 = 1 \/ b % 2 = 1 THEN 1 ELSE 0) + 2 * BitOr(a \div 2, b \div 2)

\* x & mask for an int x (two's complement) and a non-negative mask
IntAnd(x, mask) == BitAnd(x % 65536, mask)

\* ---- step_fwd ----

\* mutant: the wrap from 8 to 1 is missing
NextPhase_NoWrap(rotor) == rotor * 2

\* the phase nibble after one step forward: 8 wraps to 1, else shift left
NextPhase(rotor) == IF IntAnd(rotor, 8) # 0 THEN 1 ELSE rotor * 2

\* mutant: the write-back drops the nibble of the unit sharing the byte
step_fwd_Clobber(rot, rotor_num) ==
    LET rotor0 == rot[rotor_num \div 2]
        nib    == IF rotor_num % 2 = 0 THEN rotor0 \div 16 ELSE IntAnd(rotor0, 15)
        rotor  == IF IntAnd(nib, 8) # 0 THEN 1 ELSE nib * 2
    IN  IF rotor_num % 2 = 0
        THEN [rot EXCEPT ![rotor_num \div 2] = ToChar(rotor * 16)]
        ELSE [rot EXCEPT ![rotor_num \div 2] = ToChar(rotor)]

\* void step_fwd(int rotor_num), on the array rot
step_fwd(rot, rotor_num) ==
    LET rotor0 == rot[rotor_num \div 2]
        nib    == IF rotor_num % 2 = 0 THEN rotor0 \div 16 ELSE IntAnd(rotor0, 15)
        rotor  == NextPhase(nib)
    IN  IF rotor_num % 2 = 0
        THEN [rot EXCEPT ![rotor_num \div 2] =
                 ToChar(BitOr(rotor * 16, IntAnd(rotor0, 15)))]
        ELSE [rot EXCEPT ![rotor_num \div 2] =
                 ToChar(BitOr(rotor, IntAnd(rotor0, 240)))]

\* ---- rotors_out ----

Level(v) == IF v # 0 THEN 1 ELSE 0

\* mutant: the output stage keeps the coils on one tick longer
rotors_out_Inclusive(st, rot) ==
    IF st[OUT_ROTOR_NUM] >= -BRAKE_STEPS
    THEN LET rotor == rot[OUT_ROTOR_NUM \div 2]
         IN  <<Level(IntAnd(rotor, 128)), Level(IntAnd(rotor, 64)),
               Level(IntAnd(rotor, 32)), Level(IntAnd(rotor, 16))>>
    ELSE <<0, 0, 0, 0>>

\* the four levels rotors_out() writes, for the arrays st and rot
rotors_out(st, rot) ==
    IF st[OUT_ROTOR_NUM] > -BRAKE_STEPS
    THEN LET r0    == rot[OUT_ROTOR_NUM \div 2]
             rotor == IF OUT_ROTOR_NUM % 2 = 1 THEN ToChar(r0 * 16) ELSE r0
         IN  <<Level(IntAnd(rotor, 128)), Level(IntAnd(rotor, 64)),
               Level(IntAnd(rotor, 32)), Level(IntAnd(rotor, 16))>>
    ELSE <<0, 0, 0, 0>>

\* ---- move_rotors: the stepping loop ----

\* mutant: the brake window ends one tick early
Energized_Short(s) == s > 1 - BRAKE_STEPS

\* mutant: the brake window compared with >= instead of >
Energized_Inclusive(s) == s >= -BRAKE_STEPS

\* a unit still owns its coils: it is stepping or inside the brake window
Energized(s) == s > -BRAKE_STEPS

\* mutant: a unit at 0 takes one more step
MustStep_Inclusive(s) == s >= 0

\* a unit still has steps to do
MustStep(s) == s > 0

\* mutant: the count drops by two
CountDown_Twice(s) == s - 2

\* steps[ff]--
CountDown(s) == s - 1

\* for (ff = 0; ff < NUM_UNITS; ff++) { ... } from unit i on
RECURSIVE StepLoop(_, _, _, _)
StepLoop(i, rot, st, roll) ==
    IF i >= NUM_UNITS THEN [rot |-> rot, st |-> st, roll |-> roll]
    ELSE IF Energized(st[i])
         THEN StepLoop(i + 1,
                       IF MustStep(st[i]) THEN step_fwd(rot, i) ELSE rot,
                       [st EXCEPT ![i] = CountDown(@)],
                       TRUE)
         ELSE StepLoop(i + 1, rot, st, roll)

\* ---- move_rotors: loading a message ----

\* mutant: letters counted from 1
FlapOf_OneBased(c) ==
    IF c = 0 \/ c = 32 THEN NUM_FLAPS - 1 ELSE ToChar(c - 64)

\* the flap a message character selects
FlapOf(c) ==
    IF c = 0 \/ c = 32 THEN NUM_FLAPS - 1 ELSE ToChar(c - 65)

\* mutant: the distance is not reduced modulo NUM_FLAPS
RawSteps_NoWrap(chr, last) == (chr - last + NUM_FLAPS) * GEAR_RATIO

\* the forward distance in flaps, times the gear ratio
RawSteps(chr, last) == CRem(chr - last + NUM_FLAPS, NUM_FLAPS) * GEAR_RATIO

\* mutant: the division is done before the multiplication
Compensate_DivideFirst(n) == CDiv(n, RATIO_DEN) * RATIO_NUM

\* the compensation ratio applied to a step count
Compensate(n) == CDiv(n * RATIO_NUM, RATIO_DEN)

\* the step count loaded for a unit settled at last and sent to chr
StepsFor(chr, last) == Compensate(RawSteps(chr, last))

\* mutant: msg_p never moves
NextMsgP_Stuck(c, p) == p

\* msg_p after a unit took the character c: it stays on the terminator
NextMsgP(c, p) == IF c # 0 THEN p + 1 ELSE p

\* mutant: the loaded character is left in the buffer
ClearChar_Keep(msg, p) == msg

\* if (*msg_p != 0) *msg_p = 0
ClearChar(msg, p) == IF msg[p] # 0 THEN [msg EXCEPT ![p] = 0] ELSE msg

\* for (rotor_num = 0; rotor_num < NUM_UNITS; rotor_num++) { ... } from
\* unit rotor_num on, msg_p pointing at message[p]
RECURSIVE LoadLoop(_, _, _, _, _)
LoadLoop(rotor_num, p, st, ld, msg) ==
    IF rotor_num >= NUM_UNITS THEN [st |-> st, ld |-> ld, msg |-> msg]
    ELSE LET chr == FlapOf(msg[p])
         IN  LoadLoop(rotor_num + 1,
                      NextMsgP(msg[p], p),
                      [st EXCEPT ![rotor_num] = StepsFor(chr, ld[rotor_num])],
                      [ld EXCEPT ![rotor_num] = chr],
                      ClearChar(msg, p))

\* ---- move_rotors ----

\* mutant: the ramp counter is never lowered
AccAfterClock_NoRamp == acc

\* acc after the acceleration block, before the reset
AccAfterClock == IF acc_t = 0 /\ acc > 0 THEN acc - 1 ELSE acc

\* mutant: the delay is taken from the ramp counter before it is lowered
AccTAfterClock_Stale == IF acc_t = 0 THEN acc ELSE acc_t - 1

\* acc_t after the acceleration block
AccTAfterClock == IF acc_t = 0 THEN AccAfterClock ELSE acc_t - 1

\* mutant: the loop runs in delay ticks too
AfterLoop_NoPacing == StepLoop(0, rotors, steps, FALSE)

\* if (acc_t == 0) for (...) {...}: the arrays and the flag after the loop
AfterLoop ==
    IF acc_t = 0
    THEN StepLoop(0, rotors, steps, FALSE)
    ELSE [rot |-> rotors, st |-> steps, roll |-> FALSE]

\* void move_rotors(): one tick
move_rotors ==
    LET loop == AfterLoop
        roll == IF acc_t = 0 THEN loop.roll ELSE TRUE
        load == LoadLoop(0, 0, loop.st, last_display, message)
    IN  /\ rotors' = loop.rot
        /\ ff' = IF acc_t = 0 THEN NUM_UNITS ELSE ff
        /\ pins' = rotors_out(loop.st, loop.rot)
        /\ acc_t' = AccTAfterClock
        /\ rolling' = roll
        /\ IF roll
           THEN /\ acc' = AccAfterClock
                /\ steps' = loop.st
                /\ UNCHANGED <<last_display, message>>
                /\ path' = IF acc_t = 0 THEN "step" ELSE "delay"
           ELSE /\ acc' = INITIAL_ACCEL
                /\ IF message[0] = 0
                   THEN /\ steps' = loop.st
                        /\ UNCHANGED <<last_display, message>>
                        /\ path' = "idle"
                   ELSE /\ steps' = load.st
                        /\ last_display' = load.ld
                        /\ message' = load.msg
                        /\ path' = "load"
        /\ UNCHANGED <<char_signed, submits>>

\* ---- the host ----

\* the texts the host writes: "HELLO ", " ", and a text longer than the
\* row holding bytes outside the letters: "A[1a\310 ZBCDEF"
Texts ==
    << <<72, 69, 76, 76, 79, 32>>,
       <<32>>,
       <<65, 91, 49, 97, 200, 32, 90, 66, 67, 68, 69, 70>> >>

\* strncpy(dest, src, n): n bytes written, zero padded
strncpy(dest, src, n) ==
    [k \in DOMAIN dest |->
        IF k < n THEN (IF k < Len(src) THEN ToChar(src[k + 1]) ELSE 0)
        ELSE dest[k]]

\* the host writes text t into message[], as loop() does
Submit(t) ==
    /\ submits < MaxSubmits
    /\ message' = strncpy(message, Texts[t], NUM_UNITS)
    /\ submits' = submits + 1
    /\ UNCHANGED <<rotors, steps, acc, acc_t, last_display, rolling, ff,
                   pins, char_signed, path>>

\* the state setup() leaves
Init ==
    /\ rotors = [k \in 0 .. (NUM_UNITS \div 2) - 1 |-> 17]
    /\ steps = [i \in Units |-> 0]
    /\ acc = 0
    /\ acc_t = 0
    /\ last_display = [i \in Units |-> NUM_FLAPS - 1]
    /\ rolling = FALSE
    /\ message = [k \in 0 .. NUM_UNITS |-> 0]
    /\ ff = 0
    /\ pins = <<0, 0, 0, 0>>
    /\ char_signed \in BOOLEAN
    /\ path = "setup"
    /\ submits = 0

Next ==
    \/ move_rotors
    \/ \E t \in 1 .. Len(Texts) : Submit(t)

Spec == Init /\ [][Next]_vars

\* ---- the flap encoding on its own ----
\* A parked row whose unit 0 is settled at any flap c receives a one
\* character text holding any byte b, and the next tick loads it.

\* the phase nibble after n steps from phase 1
RECURSIVE PhaseAfter(_)
PhaseAfter(n) == IF n = 0 THEN 1 ELSE NextPhase(PhaseAfter(n - 1))

InitPlan ==
    /\ char_signed \in BOOLEAN
    /\ \E c \in 0 .. NUM_FLAPS - 1 :
          /\ last_display = [i \in Units |-> IF i = 0 THEN c ELSE NUM_FLAPS - 1]
          /\ rotors = [k \in 0 .. (NUM_UNITS \div 2) - 1 |->
                         IF k = 0
                         THEN 16 * PhaseAfter(StepsFor(c, NUM_FLAPS - 1) % 4) + 1
                         ELSE 17]
    /\ steps = [i \in Units |-> -BRAKE_STEPS]
    /\ acc = INITIAL_ACCEL
    /\ acc_t = 0
    /\ rolling = TRUE
    /\ message = [k \in 0 .. NUM_UNITS |-> 0]
    /\ ff = NUM_UNITS
    /\ pins = <<0, 0, 0, 0>>
    /\ path = "delay"
    /\ submits = 0

\* the host writes the one character text <<b>>
SubmitByte(b) ==
    /\ submits = 0
    /\ message' = strncpy(message, <<b>>, NUM_UNITS)
    /\ submits' = submits + 1
    /\ UNCHANGED <<rotors, steps, acc, acc_t, last_display, rolling, ff,
                   pins, char_signed, path>>

\* the tick that loads it
LoadTick ==
    /\ submits = 1
    /\ path # "load"
    /\ move_rotors

NextPlan ==
    \/ \E b \in 1 .. 255 : SubmitByte(b)
    \/ LoadTick

SpecPlan == InitPlan /\ [][NextPlan]_vars

\* ---- claims ----

\* C1 (as stated): at the end of every move_rotors() call, rolling is true
\* if and only if at least one unit has steps > -BRAKE_STEPS.
C1_RollingIffUnitActive ==
    path # "setup" =>
        (rolling <=> \E i \in Units : steps[i] > -BRAKE_STEPS)

\* C1 (amended): at the end of every move_rotors() call, rolling is true if
\* and only if the call was entered with a pacing delay pending (acc_t # 0)
\* or with at least one unit having steps > -BRAKE_STEPS.
C1_RollingIffActiveAtEntry ==
    [][move_rotors =>
        (rolling' <=> (acc_t # 0 \/ \E i \in Units : steps[i] > -BRAKE_STEPS))]_vars

\* a stepping tick has just parked the last unit and still reports rolling
C1_Witness ==
    /\ path = "step"
    /\ rolling
    /\ \A i \in Units : steps[i] <= -BRAKE_STEPS
    /\ submits > 0

\* C2 (as stated): once a unit's steps has reached 0, the output stage
\* reports it energized in each of the next BRAKE_STEPS stepping ticks
\* (ticks entered with acc_t = 0), de-energizing it only after them.  The
\* k-th such tick is the one entered with steps = 1 - k.
C2_EnergizedForBrakeSteps ==
    [][(/\ move_rotors
        /\ acc_t = 0
        /\ steps[OUT_ROTOR_NUM] \in (1 - BRAKE_STEPS) .. 0)
       => pins' # <<0, 0, 0, 0>>]_vars

\* C2 (amended): the output stage reports the unit energized in the
\* stepping tick in which its steps reaches 0 and in exactly the next
\* BRAKE_STEPS - 1 stepping ticks; the BRAKE_STEPS-th stepping tick after
\* that (the one taking steps to -BRAKE_STEPS) already reports it
\* de-energized.
C2_EnergizedForBrakeStepsLessOne ==
    [][(/\ move_rotors
        /\ acc_t = 0
        /\ steps[OUT_ROTOR_NUM] \in (1 - BRAKE_STEPS) .. 1)
       => (pins' # <<0, 0, 0, 0>> <=> steps[OUT_ROTOR_NUM] > 1 - BRAKE_STEPS)]_vars

\* a unit that moved has just been de-energized: the stepping tick that took
\* its count to -BRAKE_STEPS wrote all four lines low while others still roll
C2_Witness ==
    /\ path = "step"
    /\ steps[OUT_ROTOR_NUM] = -BRAKE_STEPS
    /\ pins = <<0, 0, 0, 0>>
    /\ last_display[OUT_ROTOR_NUM] = 7
    /\ steps[4] = 957 - 510 - BRAKE_STEPS

\* C3: a tick entered with acc_t nonzero decrements acc_t by exactly one,
\* advances no phase, changes no steps, loads no message and reports
\* rolling = true.
C3_DelayTickOnlyCountsDown ==
    [][(move_rotors /\ acc_t # 0)
       => /\ acc_t' = acc_t - 1
          /\ rotors' = rotors
          /\ steps' = steps
          /\ message' = message
          /\ last_display' = last_display
          /\ rolling' = TRUE]_vars

\* a delay tick has run while a unit had steps to do and a text was pending
C3_Witness ==
    /\ path = "delay"
    /\ acc_t > 0
    /\ \E i \in Units : steps[i] > 0
    /\ message[0] # 0

\* C4 (as stated): a load in which every unit's target equals its settled
\* flap leaves every steps at 0, and the tick after it does not report
\* rolling.
C4_IdempotentLoadNeverRolls ==
    [][move_rotors =>
        /\ (path' = "load" /\ last_display' = last_display)
              => \A i \in Units : steps'[i] = 0
        /\ (path = "load" /\ \A i \in Units : steps[i] = 0)
              => ~rolling']_vars

\* C4 (amended): a load in which every unit's target equals its settled flap
\* leaves every steps at 0; from then until the next load no phase is
\* advanced and no steps rises above 0, while rolling is reported true in
\* every tick entered with a unit still inside its brake window.
C4_IdempotentLoadNeverSteps ==
    [][move_rotors =>
        /\ (path' = "load" /\ last_display' = last_display)
              => \A i \in Units : steps'[i] = 0
        /\ ((\A i \in Units : steps[i] <= 0) /\ path' # "load")
              => /\ rotors' = rotors
                 /\ \A i \in Units : steps'[i] <= 0
                 /\ (\E i \in Units : steps[i] > -BRAKE_STEPS) => rolling']_vars

\* the first stepping tick of a cycle loaded with all targets settled
C4_Witness ==
    /\ path = "step"
    /\ acc = INITIAL_ACCEL - 1
    /\ rolling
    /\ \A i \in Units : steps[i] = -1

\* the character unit i reads at a load of the buffer msg: the terminator
\* once the text has ended
CharAt(msg, i) == IF \A k \in 0 .. i : msg[k] # 0 THEN msg[i] ELSE 0

\* C5: the character to flap mapping applied at a load sends 'A'..'Z' to
\* 0..25 and every other character value to the space flap NUM_FLAPS - 1.
C5_MappingTotal ==
    [][(move_rotors /\ path' = "load")
       => \A i \in Units :
            last_display'[i] =
                IF CharAt(message, i) \in 65 .. 90
                THEN CharAt(message, i) - 65
                ELSE NUM_FLAPS - 1]_vars

\* C6: for settled and target flaps c, t in [0, NUM_FLAPS) the step count
\* loaded is non-negative and equals ((t - c + 32) % 32) * GEAR_RATIO
\* scaled by 319/320 with the fraction dropped.
C6_StepPlan ==
    [][(move_rotors /\ path' = "load")
       => \A i \in Units :
            (last_display[i] \in 0 .. 31 /\ last_display'[i] \in 0 .. 31)
            => /\ steps'[i] >= 0
               /\ steps'[i] =
                    ((((last_display'[i] - last_display[i] + 32) % 32) * 64) * 319)
                        \div 320]_vars

\* a load that wrapped around the ring: a unit sent to 'D' (flap 3) over
\* 15 flaps, so it was settled at flap 20
C6_Witness ==
    /\ path = "load"
    /\ last_display[0] = 3
    /\ steps[0] = 957

\* C7: every last_display is in [0, NUM_FLAPS) and a load leaves no steps
\* negative.
C7_FlapsInRangeStepsForward ==
    /\ \A i \in Units : last_display[i] \in 0 .. NUM_FLAPS - 1
    /\ path = "load" => \A i \in Units : steps[i] >= 0

\* a row of values, unit 0 first
Row(seq) == [i \in Units |-> seq[i + 1]]

\* message[] holding "HELLO " as loop() writes it
HelloBuffer ==
    [k \in 0 .. NUM_UNITS |->
        IF k < 6 THEN <<72, 69, 76, 76, 79, 32>>[k + 1] ELSE 0]

\* the tick loads "HELLO " into a row settled at space everywhere
LoadsHelloFromSpace ==
    /\ move_rotors
    /\ path' = "load"
    /\ message = HelloBuffer
    /\ \A i \in Units : last_display[i] = NUM_FLAPS - 1

NibbleOf(i) ==
    IF i % 2 = 0 THEN (rotors[i \div 2] % 256) \div 16 ELSE rotors[i \div 2] % 16

\* the four line levels of a nibble, pin_1 first
LinesOf(n) == <<(n \div 8) % 2, (n \div 4) % 2, (n \div 2) % 2, n % 2>>

\* C9: after every tick, for every unit, the signal emitted is the pattern
\* of the unit's phase nibble if its steps > -BRAKE_STEPS at output time and
\* all four lines low otherwise.  (In a tick that loads, the output precedes
\* the load, so those ticks are left out.)
C9_EveryUnitSignal ==
    path \in {"step", "delay", "idle"} =>
        \A i \in Units :
            pins = IF steps[i] > -BRAKE_STEPS THEN LinesOf(NibbleOf(i))
                   ELSE <<0, 0, 0, 0>>

\* the number of characters of the text in message[] the row can take
TextLen ==
    CHOOSE n \in 0 .. NUM_UNITS :
        /\ \A k \in 0 .. n - 1 : message[k] # 0
        /\ n = NUM_UNITS \/ message[n] = 0

\* C10: at a load unit i receives the i-th character of the text, units at
\* or past its end receive the space flap, the characters taken are cleared
\* and nothing at or past index NUM_UNITS is read or written; the host's
\* write leaves message[NUM_UNITS] alone as well.
C10_FrontToBackConsumption ==
    [][/\ (move_rotors /\ path' = "load") =>
            /\ \A i \in Units :
                  last_display'[i] =
                      IF i < TextLen THEN FlapOf(message[i]) ELSE NUM_FLAPS - 1
            /\ \A k \in 0 .. NUM_UNITS :
                  message'[k] = IF k < TextLen THEN 0 ELSE message[k]
       /\ (\E t \in 1 .. Len(Texts) : Submit(t)) =>
            message'[NUM_UNITS] = message[NUM_UNITS]]_vars

\* the twelve character text has been loaded: the tenth unit took its tenth
\* character 'D' and the buffer is empty
C10_Witness ==
    /\ path = "load"
    /\ last_display[9] = 3
    /\ last_display[6] = 25
    /\ last_display[5] = NUM_FLAPS - 1
    /\ \A k \in 0 .. NUM_UNITS : message[k] = 0

\* the step is a tick that takes the load branch
LoadingTick == move_rotors /\ path' = "load"

\* C11: last_display is written and a steps is raised or newly assigned
\* only by a loading tick, and a loading tick is entered with no delay
\* pending and every unit at steps <= -BRAKE_STEPS.
C11_LoadOnlyWhenAllParked ==
    [][(\/ last_display' # last_display
        \/ \E i \in Units : steps'[i] > steps[i]
        \/ LoadingTick)
       => /\ LoadingTick
          /\ acc_t = 0
          /\ \A i \in Units : steps[i] <= -BRAKE_STEPS]_vars

\* a second text has been loaded after the first cycle ran out: unit 0 goes
\* from 'A' to 'H', 7 flaps
C11_Witness ==
    /\ path = "load"
    /\ submits = 2
    /\ last_display[0] = 7
    /\ steps[0] = 446

\* C12: in every tick that loads nothing each steps stays or drops by one,
\* and no step other than a loading tick raises a steps.
C12_StepsNonIncreasing ==
    [][/\ (move_rotors /\ path' # "load") =>
             \A i \in Units : steps'[i] \in {steps[i], steps[i] - 1}
       /\ (\E i \in Units : steps'[i] > steps[i]) => LoadingTick]_vars

\* a stepping tick in which a parked unit stayed and a moving unit dropped
C12_Witness ==
    /\ path = "step"
    /\ steps[1] = -BRAKE_STEPS
    /\ steps[4] = 957 - 319 - BRAKE_STEPS - 5
    /\ last_display[4] = 14

\* steps still to execute: the positive part of a count
ToGo(s) == IF s > 0 THEN s ELSE 0

\* the phase after n in the excitation cycle 1 -> 2 -> 4 -> 8 -> 1
CycleNext(n) == CASE n = 1 -> 2 [] n = 2 -> 4 [] n = 4 -> 8 [] n = 8 -> 1 [] OTHER -> 0

AllParked == \A i \in Units : steps[i] <= -BRAKE_STEPS

\* stepping ticks a unit still needs before it is parked
ToPark(s) == IF s > -BRAKE_STEPS THEN s + BRAKE_STEPS ELSE 0

\* stepping ticks the row still needs before every unit is parked
Work == CHOOSE w \in {ToPark(steps[i]) : i \in Units} :
            \A i \in Units : ToPark(steps[i]) <= w

\* C13: between loads a unit's phase is advanced in a tick exactly when its
\* count of steps still to do drops by one, so a unit loaded with k >= 0
\* steps gets exactly k advances and then holds; a load moves no phase; and
\* every tick that reports rolling = true strictly lowers the pair (stepping
\* ticks still needed, delay ticks pending), while a tick reports
\* rolling = false exactly when it is entered with every unit parked and no
\* delay pending.  So repeated ticks bring every loaded cycle to a tick
\* reporting rolling = false after finitely many calls.
C13_CycleRunsToCompletion ==
    [][move_rotors =>
        /\ path' # "load" =>
              \A i \in Units :
                  /\ ToGo(steps[i]) - ToGo(steps'[i]) \in {0, 1}
                  /\ NibbleOf(i)' = IF ToGo(steps[i]) - ToGo(steps'[i]) = 1
                                    THEN CycleNext(NibbleOf(i))
                                    ELSE NibbleOf(i)
        /\ path' = "load" => rotors' = rotors
        /\ IF rolling'
           THEN \/ Work' < Work
                \/ Work' = Work /\ acc_t' < acc_t
           ELSE Work = 0 /\ acc_t = 0]_vars

\* the "HELLO " cycle has run out and a tick has found the row not rolling:
\* unit 4 has taken its 957 steps, 957 % 4 = 1 past phase 1
C13_Witness ==
    /\ path = "idle"
    /\ ~rolling
    /\ AllParked
    /\ submits = 1
    /\ last_display[4] = 14
    /\ NibbleOf(4) = 2

\* C14: every unit's phase nibble is one of 1, 2, 4, 8; in a tick a unit's
\* nibble moves one place along 1 -> 2 -> 4 -> 8 -> 1 if the tick was entered
\* with no delay pending and the unit's steps > 0, and stays as it is in
\* every other tick; a host write moves no phase.
C14_PhaseOneHotOneAdvancePerStep ==
    /\ [](\A i \in Units : NibbleOf(i) \in {1, 2, 4, 8})
    /\ [][/\ move_rotors =>
                \A i \in Units :
                    NibbleOf(i)' = IF acc_t = 0 /\ steps[i] > 0
                                   THEN CycleNext(NibbleOf(i))
                                   ELSE NibbleOf(i)
          /\ (\E t \in 1 .. Len(Texts) : Submit(t)) => rotors' = rotors]_vars

\* unit 0 has wrapped from 8 back to 1: four steps into the "HELLO " cycle
C14_Witness ==
    /\ path = "step"
    /\ last_display[0] = 7
    /\ steps[0] = 510 - 4
    /\ NibbleOf(0) = 1
    /\ NibbleOf(5) = 1

\* C15 (as stated): in every tick entered with no delay pending, a unit
\* with steps > -BRAKE_STEPS has its steps lowered by exactly one, a unit
\* with steps <= -BRAKE_STEPS keeps its steps, a unit with steps > 0 has its
\* phase advanced and a unit with steps <= 0 has not.
C15_IndependentCountDown ==
    [][(move_rotors /\ acc_t = 0) =>
        \A i \in Units :
            /\ steps[i] > -BRAKE_STEPS => steps'[i] = steps[i] - 1
            /\ steps[i] <= -BRAKE_STEPS => steps'[i] = steps[i]
            /\ NibbleOf(i)' = IF steps[i] > 0 THEN CycleNext(NibbleOf(i))
                              ELSE NibbleOf(i)]_vars

\* C15 (amended): the same, except that a unit with steps <= -BRAKE_STEPS
\* keeps its steps only if the tick loads no message; a tick that finds
\* every unit parked and a text pending assigns every unit a new steps.
C15_IndependentCountDownUnlessLoad ==
    [][(move_rotors /\ acc_t = 0) =>
        \A i \in Units :
            /\ steps[i] > -BRAKE_STEPS => steps'[i] = steps[i] - 1
            /\ (steps[i] <= -BRAKE_STEPS /\ path' # "load") => steps'[i] = steps[i]
            /\ (path' = "load") <=> (AllParked /\ message[0] # 0)
            /\ NibbleOf(i)' = IF steps[i] > 0 THEN CycleNext(NibbleOf(i))
                              ELSE NibbleOf(i)]_vars

\* in one stepping tick of the "HELLO " cycle a short unit is inside its
\* brake window, another is parked and the longest still steps
C15_Witness ==
    /\ path = "step"
    /\ last_display[4] = 14
    /\ steps[4] > 0
    /\ steps[0] \in (1 - BRAKE_STEPS) .. -1
    /\ steps[1] = -BRAKE_STEPS

\* C16 (as stated): the first stepping tick of a cycle (entered with the
\* ramp counter at INITIAL_ACCEL) is followed by INITIAL_ACCEL delay ticks.
C16_RampStartsAtInitialAccel ==
    [][(move_rotors /\ acc_t = 0 /\ rolling' /\ acc = INITIAL_ACCEL)
       => acc_t' = INITIAL_ACCEL]_vars

\* C16 (amended): the first stepping tick of a cycle is followed by
\* INITIAL_ACCEL - 1 delay ticks; each stepping tick lowers the ramp counter
\* by one until it is 0, where it stays, and leaves that many delay ticks
\* pending; a delay tick consumes one pending delay tick and leaves the ramp
\* counter alone; every tick that finds the row not rolling sets the ramp
\* counter to INITIAL_ACCEL.
C16_RampStartsBelowInitialAccel ==
    [][move_rotors =>
        /\ (acc_t = 0 /\ rolling') =>
              /\ acc' = IF acc > 0 THEN acc - 1 ELSE 0
              /\ acc_t' = acc'
        /\ (acc_t = 0 /\ rolling' /\ path = "load") => acc_t' = INITIAL_ACCEL - 1
        /\ acc_t # 0 => (acc_t' = acc_t - 1 /\ acc' = acc)
        /\ ~rolling' => acc' = INITIAL_ACCEL]_vars

\* the ramp has run down inside a cycle: the stepping tick that took the
\* ramp counter from 1 to 0 with steps still to do
C16_Witness ==
    /\ path = "step"
    /\ acc = 0
    /\ acc_t = 0
    /\ last_display[0] = 7
    /\ steps[0] = 510 - INITIAL_ACCEL

\* C17: a tick entered with every unit parked and no text pending leaves
\* steps, the phases, last_display and message[] as they are and reports
\* rolling = false.
C17_IdleStaysNotRolling ==
    [][(move_rotors /\ AllParked /\ message[0] = 0)
       => /\ steps' = steps
          /\ rotors' = rotors
          /\ last_display' = last_display
          /\ message' = message
          /\ ~rolling']_vars

\* C18: every tick that reports rolling = false leaves message[] empty, and a
\* tick loads only a non-empty message[]; so a text written after a tick
\* reported rolling = false overwrites nothing, and a loaded text is gone
\* from the buffer and cannot be loaded again.
C18_BufferEmptyWhenNotRolling ==
    [][move_rotors =>
        /\ ~rolling' => \A k \in 0 .. NUM_UNITS : message'[k] = 0
        /\ path' = "load" => message[0] # 0]_vars

\* the second text written has been loaded in its turn: unit 0 goes from 'H'
\* to 'A', 25 flaps, and the buffer is empty again
C18_Witness ==
    /\ path = "load"
    /\ submits = 2
    /\ last_display[0] = 0
    /\ steps[0] = 1595
    /\ \A k \in 0 .. NUM_UNITS : message[k] = 0

\* C19: while every unit is parked and a text is pending, acc_t is at most
\* INITIAL_ACCEL - 1; each tick either loads the text (acc_t = 0) or only
\* counts acc_t down by one, keeping the units parked and the text pending.
\* The text is therefore loaded by the tick numbered acc_t + 1, within
\* INITIAL_ACCEL ticks.
C19_PendingTextLoadedWithinInitialAccel ==
    /\ [](AllParked /\ message[0] # 0 => acc_t <= INITIAL_ACCEL - 1)
    /\ [][(move_rotors /\ AllParked /\ message[0] # 0)
            => IF acc_t = 0
               THEN path' = "load"
               ELSE /\ acc_t' = acc_t - 1
                    /\ AllParked'
                    /\ message' = message]_vars

\* the worst case: a text pending on a parked row with the longest wait ahead
C19_Witness ==
    /\ AllParked
    /\ message[0] # 0
    /\ acc_t = INITIAL_ACCEL - 1

\* the 4-bit nibble of unit i in a packed array rot: high nibble for even i,
\* low nibble for odd i
NibbleIn(rot, i) ==
    IF i % 2 = 0 THEN (rot[i \div 2] % 256) \div 16 ELSE rot[i \div 2] % 16

\* the values a char can hold in this build
CharRange == IF char_signed THEN -128 .. 127 ELSE 0 .. 255

\* C20: on every rotors array the program reaches, step_fwd(i) moves unit
\* i's nibble one place along the cycle and leaves the nibble of every other
\* unit, the one sharing the byte included, and every other byte as they
\* are; this holds also for bytes whose high bit is set.
C20_StepFwdChangesOnlyOwnNibble ==
    \A i \in Units :
        LET after == step_fwd(rotors, i) IN
            /\ DOMAIN after = DOMAIN rotors
            /\ NibbleIn(after, i) = CycleNext(NibbleIn(rotors, i))
            /\ \A j \in Units \ {i} : NibbleIn(after, j) = NibbleIn(rotors, j)
            /\ \A b \in DOMAIN rotors :
                /\ after[b] \in CharRange
                /\ b # i \div 2 => after[b] = rotors[b]

\* a stepping tick has left byte 0 with its high bit set (unit 0 at phase 8,
\* a negative value in a signed-char build) and the two units sharing the
\* byte at different phases
C20_Witness ==
    /\ path = "step"
    /\ char_signed
    /\ rotors[0] < 0
    /\ NibbleIn(rotors, 0) = 8
    /\ NibbleIn(rotors, 1) = 2

====
